---- MODULE Spec2Model ----
(***************************************************************************)
(* protoid.py: the protocol identifier of a version string is "0x" and the *)
(* first 8 characters of the hexadecimal SHA-512 digest of the string.     *)
(* A Python string is a record of its type ("bytes" or "text") and its     *)
(* characters, a sequence of code points; a 64-bit word is the sequence of *)
(* its 64 bits, most significant first.                                    *)
(***************************************************************************)
EXTENDS Integers, Sequences, FiniteSets, TLC

(***************************************************************************)
(* hashlib.sha512 (FIPS 180-4, section 6.4)                                *)
(***************************************************************************)

\* The 16-bit limbs of the SHA-512 round constants, most significant first.
K512 ==
  << <<\H428a, \H2f98, \Hd728, \Hae22>>, <<\H7137, \H4491, \H23ef, \H65cd>>,
     <<\Hb5c0, \Hfbcf, \Hec4d, \H3b2f>>, <<\He9b5, \Hdba5, \H8189, \Hdbbc>>,
     <<\H3956, \Hc25b, \Hf348, \Hb538>>, <<\H59f1, \H11f1, \Hb605, \Hd019>>,
     <<\H923f, \H82a4, \Haf19, \H4f9b>>, <<\Hab1c, \H5ed5, \Hda6d, \H8118>>,
     <<\Hd807, \Haa98, \Ha303, \H0242>>, <<\H1283, \H5b01, \H4570, \H6fbe>>,
     <<\H2431, \H85be, \H4ee4, \Hb28c>>, <<\H550c, \H7dc3, \Hd5ff, \Hb4e2>>,
     <<\H72be, \H5d74, \Hf27b, \H896f>>, <<\H80de, \Hb1fe, \H3b16, \H96b1>>,
     <<\H9bdc, \H06a7, \H25c7, \H1235>>, <<\Hc19b, \Hf174, \Hcf69, \H2694>>,
     <<\He49b, \H69c1, \H9ef1, \H4ad2>>, <<\Hefbe, \H4786, \H384f, \H25e3>>,
     <<\H0fc1, \H9dc6, \H8b8c, \Hd5b5>>, <<\H240c, \Ha1cc, \H77ac, \H9c65>>,
     <<\H2de9, \H2c6f, \H592b, \H0275>>, <<\H4a74, \H84aa, \H6ea6, \He483>>,
     <<\H5cb0, \Ha9dc, \Hbd41, \Hfbd4>>, <<\H76f9, \H88da, \H8311, \H53b5>>,
     <<\H983e, \H5152, \Hee66, \Hdfab>>, <<\Ha831, \Hc66d, \H2db4, \H3210>>,
     <<\Hb003, \H27c8, \H98fb, \H213f>>, <<\Hbf59, \H7fc7, \Hbeef, \H0ee4>>,
     <<\Hc6e0, \H0bf3, \H3da8, \H8fc2>>, <<\Hd5a7, \H9147, \H930a, \Ha725>>,
     <<\H06ca, \H6351, \He003, \H826f>>, <<\H1429, \H2967, \H0a0e, \H6e70>>,
     <<\H27b7, \H0a85, \H46d2, \H2ffc>>, <<\H2e1b, \H2138, \H5c26, \Hc926>>,
     <<\H4d2c, \H6dfc, \H5ac4, \H2aed>>, <<\H5338, \H0d13, \H9d95, \Hb3df>>,
     <<\H650a, \H7354, \H8baf, \H63de>>, <<\H766a, \H0abb, \H3c77, \Hb2a8>>,
     <<\H81c2, \Hc92e, \H47ed, \Haee6>>, <<\H9272, \H2c85, \H1482, \H353b>>,
     <<\Ha2bf, \He8a1, \H4cf1, \H0364>>, <<\Ha81a, \H664b, \Hbc42, \H3001>>,
     <<\Hc24b, \H8b70, \Hd0f8, \H9791>>, <<\Hc76c, \H51a3, \H0654, \Hbe30>>,
     <<\Hd192, \He819, \Hd6ef, \H5218>>, <<\Hd699, \H0624, \H5565, \Ha910>>,
     <<\Hf40e, \H3585, \H5771, \H202a>>, <<\H106a, \Ha070, \H32bb, \Hd1b8>>,
     <<\H19a4, \Hc116, \Hb8d2, \Hd0c8>>, <<\H1e37, \H6c08, \H5141, \Hab53>>,
     <<\H2748, \H774c, \Hdf8e, \Heb99>>, <<\H34b0, \Hbcb5, \He19b, \H48a8>>,
     <<\H391c, \H0cb3, \Hc5c9, \H5a63>>, <<\H4ed8, \Haa4a, \He341, \H8acb>>,
     <<\H5b9c, \Hca4f, \H7763, \He373>>, <<\H682e, \H6ff3, \Hd6b2, \Hb8a3>>,
     <<\H748f, \H82ee, \H5def, \Hb2fc>>, <<\H78a5, \H636f, \H4317, \H2f60>>,
     <<\H84c8, \H7814, \Ha1f0, \Hab72>>, <<\H8cc7, \H0208, \H1a64, \H39ec>>,
     <<\H90be, \Hfffa, \H2363, \H1e28>>, <<\Ha450, \H6ceb, \Hde82, \Hbde9>>,
     <<\Hbef9, \Ha3f7, \Hb2c6, \H7915>>, <<\Hc671, \H78f2, \He372, \H532b>>,
     <<\Hca27, \H3ece, \Hea26, \H619c>>, <<\Hd186, \Hb8c7, \H21c0, \Hc207>>,
     <<\Heada, \H7dd6, \Hcde0, \Heb1e>>, <<\Hf57d, \H4f7f, \Hee6e, \Hd178>>,
     <<\H06f0, \H67aa, \H7217, \H6fba>>, <<\H0a63, \H7dc5, \Ha2c8, \H98a6>>,
     <<\H113f, \H9804, \Hbef9, \H0dae>>, <<\H1b71, \H0b35, \H131c, \H471b>>,
     <<\H28db, \H77f5, \H2304, \H7d84>>, <<\H32ca, \Hab7b, \H40c7, \H2493>>,
     <<\H3c9e, \Hbe0a, \H15c9, \Hbebc>>, <<\H431d, \H67c4, \H9c10, \H0d4c>>,
     <<\H4cc5, \Hd4be, \Hcb3e, \H42b6>>, <<\H597f, \H299c, \Hfc65, \H7e2a>>,
     <<\H5fcb, \H6fab, \H3ad6, \Hfaec>>, <<\H6c44, \H198c, \H4a47, \H5817>> >>

\* The 16-bit limbs of the SHA-512 initial hash value.
H512 ==
  << <<\H6a09, \He667, \Hf3bc, \Hc908>>, <<\Hbb67, \Hae85, \H84ca, \Ha73b>>,
     <<\H3c6e, \Hf372, \Hfe94, \Hf82b>>, <<\Ha54f, \Hf53a, \H5f1d, \H36f1>>,
     <<\H510e, \H527f, \Hade6, \H82d1>>, <<\H9b05, \H688c, \H2b3e, \H6c1f>>,
     <<\H1f83, \Hd9ab, \Hfb41, \Hbd6b>>, <<\H5be0, \Hcd19, \H137e, \H2179>> >>

Pow2 == <<1, 2, 4, 8, 16, 32, 64, 128, 256, 512, 1024, 2048, 4096, 8192, 16384, 32768>>

\* The element of a one-element set.
The(S) == CHOOSE e \in S : TRUE

\* Bit k (0 the least significant) of the number n < 2^16.
BitOf(n, k) == (n \div Pow2[k + 1]) % 2

\* The number whose 8 binary digits are w[i], ..., w[i+7].
Bits8(w, i) ==
  128 * w[i] + 64 * w[i + 1] + 32 * w[i + 2] + 16 * w[i + 3]
    + 8 * w[i + 4] + 4 * w[i + 5] + 2 * w[i + 6] + w[i + 7]

\* A 64-bit word as the sequence of its bits; SubSeq yields the sequence itself.
Word(f) == SubSeq(f, 1, 64)

WordOfLimbs(l) ==
  Word([i \in 1..64 |-> BitOf(l[((i - 1) \div 16) + 1], 15 - ((i - 1) % 16))])

LimbsOfWord(w) ==
  [j \in 1..4 |-> 256 * Bits8(w, 16 * j - 15) + Bits8(w, 16 * j - 7)]

\* a + b modulo 2^64, the carries passed from limb to limb.
Add(a, b) ==
  LET x == LimbsOfWord(a)
      y == LimbsOfWord(b)
      s4 == x[4] + y[4]
      s3 == x[3] + y[3] + (s4 \div 65536)
      s2 == x[2] + y[2] + (s3 \div 65536)
      s1 == x[1] + y[1] + (s2 \div 65536)
  IN  WordOfLimbs(<<s1 % 65536, s2 % 65536, s3 % 65536, s4 % 65536>>)

Xor(a, b) == Word([i \in 1..64 |-> (a[i] + b[i]) % 2])
And(a, b) == Word([i \in 1..64 |-> a[i] * b[i]])
Not(a) == Word([i \in 1..64 |-> 1 - a[i]])
Rotr(a, n) == Word([i \in 1..64 |-> a[((i - 1 + 64 - n) % 64) + 1]])
Shr(a, n) == Word([i \in 1..64 |-> IF i <= n THEN 0 ELSE a[i - n]])

Ch(x, y, z) == Xor(And(x, y), And(Not(x), z))
Maj(x, y, z) == Xor(Xor(And(x, y), And(x, z)), And(y, z))
BigSigma0(x) == Xor(Xor(Rotr(x, 28), Rotr(x, 34)), Rotr(x, 39))
BigSigma1(x) == Xor(Xor(Rotr(x, 14), Rotr(x, 18)), Rotr(x, 41))
SmallSigma0(x) == Xor(Xor(Rotr(x, 1), Rotr(x, 8)), Shr(x, 7))
SmallSigma1(x) == Xor(Xor(Rotr(x, 19), Rotr(x, 61)), Shr(x, 6))

\* Byte i (1..16) of the big-endian 128-bit number n < 2^31.
LengthByte(n, i) ==
  IF i <= 12 THEN 0 ELSE (n \div <<16777216, 65536, 256, 1>>[i - 12]) % 256

\* The message with its padding: a 1 bit, zeros to 112 modulo 128 bytes, and
\* the bit length of the message.
Pad(m) ==
  LET zeros == (239 - (Len(m) % 128)) % 128
  IN  m \o <<128>> \o [i \in 1..zeros |-> 0]
        \o [i \in 1..16 |-> LengthByte(8 * Len(m), i)]

\* Word j (1..16) of the 128-byte block that starts after byte off of p.
BlockWord(p, off, j) ==
  Word([i \in 1..64 |->
          BitOf(p[off + 8 * (j - 1) + ((i - 1) \div 8) + 1], 7 - ((i - 1) % 8))])

RECURSIVE Schedule(_, _)
\* The message schedule W grown to n words: W[t] for t > 16 is computed from
\* W[t-2], W[t-7], W[t-15] and W[t-16]. The words are appended in order; the
\* range is halved to keep the evaluation shallow.
Schedule(W, n) ==
  IF Len(W) >= n THEN W
  ELSE IF Len(W) + 1 = n
       THEN Append(W, Add(Add(SmallSigma1(W[n - 2]), W[n - 7]),
                          Add(SmallSigma0(W[n - 15]), W[n - 16])))
       ELSE The({Schedule(half, n) : half \in {Schedule(W, (Len(W) + n) \div 2)}})

\* One round on the working variables v = <<a, b, c, d, e, f, g, h>>.
Round(v, Kt, Wt) ==
  LET T1 == Add(Add(Add(v[8], BigSigma1(v[5])), Add(Ch(v[5], v[6], v[7]), Kt)), Wt)
      T2 == Add(BigSigma0(v[1]), Maj(v[1], v[2], v[3]))
  IN  <<Add(T1, T2), v[1], v[2], v[3], Add(v[4], T1), v[5], v[6], v[7]>>

RECURSIVE Rounds(_, _, _, _)
\* Rounds lo..hi in order on the working variables v, the range halved to keep
\* the evaluation shallow.
Rounds(v, W, lo, hi) ==
  IF lo > hi THEN v
  ELSE IF lo = hi THEN Round(v, WordOfLimbs(K512[lo]), W[lo])
       ELSE The({Rounds(half, W, ((lo + hi) \div 2) + 1, hi) :
                   half \in {Rounds(v, W, lo, (lo + hi) \div 2)}})

\* The hash value after the 128-byte block that starts after byte off of p.
Compress(H, p, off) ==
  The({[i \in 1..8 |-> Add(H[i], v[i])] :
         v \in {The({Rounds(H, W, 1, 80) :
                       W \in {Schedule([j \in 1..16 |-> BlockWord(p, off, j)], 80)}})}})

RECURSIVE Blocks(_, _, _)
Blocks(H, p, off) ==
  IF off >= Len(p) THEN H
  ELSE The({Blocks(next, p, off + 128) : next \in {Compress(H, p, off)}})

\* sha512(m).digest(): the 64 bytes of the final hash value.
Sha512Digest(m) ==
  The({SubSeq([i \in 1..64 |->
                 Bits8(H[((i - 1) \div 8) + 1], 8 * ((i - 1) % 8) + 1)], 1, 64) :
         H \in {The({Blocks([i \in 1..8 |-> WordOfLimbs(H512[i])], p, 0) :
                       p \in {Pad(m)}})}})

\* The code points of "0123456789abcdef".
HexDigits == <<48, 49, 50, 51, 52, 53, 54, 55, 56, 57, 97, 98, 99, 100, 101, 102>>

\* h.hexdigest(): two lowercase hexadecimal characters per digest byte.
HexDigest(d) ==
  SubSeq([i \in 1..(2 * Len(d)) |->
            HexDigits[(IF i % 2 = 1 THEN d[(i + 1) \div 2] \div 16
                                    ELSE d[(i + 1) \div 2] % 16) + 1]],
         1, 2 * Len(d))

(***************************************************************************)
(* The interpreter and Python's values                                     *)
(***************************************************************************)

\* What "#!/usr/bin/env python" resolves to: the source names no version.
Interpreters == {"python2", "python3"}

\* The longest string a caller passes, the number of threads that call protoid
\* and the most command-line arguments.
MaxLen == 1
NThreads == 2
MaxArgs == 2

\* The characters of the strings library callers pass: "a" and U+00E9 (as a
\* byte, 0xE9), and those of the command-line arguments: "a" and "b".
Chars == {97, 233}
ArgChars == {97, 98}

RECURSIVE SeqsUpTo(_, _)
\* The sequences over S of length at most n.
SeqsUpTo(S, n) ==
  IF n = 0 THEN {<<>>}
  ELSE SeqsUpTo(S, n - 1) \cup {Append(s, c) : s \in SeqsUpTo(S, n - 1), c \in S}

None == [type |-> "NoneType"]

\* The state of the process.
Running == [state |-> "running"]
Exited(n) == [state |-> "exited", code |-> n]

BytesObject(cs) == [type |-> "bytes", chars |-> cs]
TextObject(cs) == [type |-> "text", chars |-> cs]

\* The objects callers pass to protoid: byte strings (str in Python 2, bytes in
\* Python 3) and text strings (unicode in Python 2, str in Python 3).
Inputs ==
  {BytesObject(cs) : cs \in SeqsUpTo(Chars, MaxLen)}
    \cup {TextObject(cs) : cs \in SeqsUpTo(Chars, MaxLen)}

\* The code points of 'Testing v0.2'.
OtherVersionString == <<84, 101, 115, 116, 105, 110, 103, 32, 118, 48, 46, 50>>

\* The code points of 'Testing v0.1'.
DefaultVersionString == <<84, 101, 115, 116, 105, 110, 103, 32, 118, 48, 46, 49>>

\* The byte strings sha512 is applied to.
Messages ==
  SeqsUpTo(Chars, MaxLen) \cup SeqsUpTo(ArgChars, MaxLen) \cup {DefaultVersionString}

Threads == 1..NThreads

\* The digest of every message, computed once.
Sha512Table == [m \in Messages |-> Sha512Digest(m)]

\* hashlib.sha512(m): a new hash object that has read the bytes m.
sha512(m) == [type |-> "sha512", digest |-> Sha512Table[m]]

VARIABLES
  interp,          \* the interpreter that runs the script
  modules,         \* sys.modules: the modules the process has loaded
  pc,              \* pc[t]: the line of protoid thread t is at, or "idle"
  frame,           \* frame[t]: the locals version_string, h, ver of t's call
  arg,             \* arg[t]: the object the caller of t's call passed
  result,          \* result[t]: how t's last call ended
  cpc,             \* the line of the script the main program is at
  argv,            \* sys.argv[1:], each argument its characters
  version_string,  \* the script's global version_string
  stdout,          \* the lines written to standard output
  stderr,          \* the lines written to standard error
  status,          \* Running, or Exited(n) with the exit status n
  calls,           \* the calls of protoid the main program has made
  prev             \* the previous run of the script

libVars == <<modules, pc, frame, arg, result>>
cliVars == <<cpc, argv, version_string, stdout, stderr, status, calls, prev>>
vars == <<interp, modules, pc, frame, arg, result,
          cpc, argv, version_string, stdout, stderr, status, calls, prev>>

\* A string literal or a command-line argument: str, which is a byte string in
\* Python 2 and a text string in Python 3.
Str(cs) == IF interp = "python2" THEN BytesObject(cs) ELSE TextObject(cs)

\* s[lo:hi] for 0 <= lo <= hi.
Slice(s, lo, hi) == SubSeq(s, lo + 1, IF hi < Len(s) THEN hi ELSE Len(s))

\* The bytes sha512() reads from obj: those of a byte string; in Python 2 a text
\* string is encoded with the default codec, ASCII; in Python 3 a text string
\* is refused ("Strings must be encoded before hashing").
BufferOf(obj) ==
  IF obj.type = "bytes" THEN [ok |-> TRUE, bytes |-> obj.chars]
  ELSE IF interp = "python3" THEN [ok |-> FALSE, exc |-> "TypeError"]
  ELSE IF \A i \in DOMAIN obj.chars : obj.chars[i] < 128
       THEN [ok |-> TRUE, bytes |-> obj.chars]
       ELSE [ok |-> FALSE, exc |-> "UnicodeEncodeError"]

(***************************************************************************)
(* protoid (lines 3-7)                                                     *)
(***************************************************************************)

EmptyFrame == [version_string |-> None, h |-> None, ver |-> None]

\* No call has ended yet.
NoResult == [kind |-> "none"]

\* def protoid(version_string): thread t calls protoid(obj).
Enter(t, obj) ==
  /\ pc[t] = "idle"
  /\ pc' = [pc EXCEPT ![t] = "l4"]
  /\ frame' = [frame EXCEPT ![t] = [EmptyFrame EXCEPT !.version_string = obj]]
  /\ arg' = [arg EXCEPT ![t] = obj]
  /\ result' = [result EXCEPT ![t] = NoResult]
  /\ UNCHANGED modules

\* from hashlib import sha512: the first import loads the module into
\* sys.modules, a later one finds it there.
Line4(t) ==
  /\ pc[t] = "l4"
  /\ modules' = modules \cup {"hashlib"}
  /\ pc' = [pc EXCEPT ![t] = "l5"]
  /\ UNCHANGED <<frame, arg, result>>

\* Line 5 with h a global of the module instead of a local of the call.
Line5Global(t) ==
  /\ pc[t] = "l5"
  /\ LET buf == BufferOf(frame[t].version_string)
     IN  IF buf.ok
         THEN /\ frame' = [u \in Threads |->
                             [frame[u] EXCEPT !.h = sha512(buf.bytes)]]
              /\ pc' = [pc EXCEPT ![t] = "l6"]
              /\ UNCHANGED result
         ELSE /\ result' = [result EXCEPT ![t] = [kind |-> "raise", exc |-> buf.exc]]
              /\ frame' = [frame EXCEPT ![t] = EmptyFrame]
              /\ pc' = [pc EXCEPT ![t] = "idle"]
  /\ UNCHANGED <<modules, arg>>

\* h = sha512(version_string); an exception ends the call.
Line5(t) ==
  /\ pc[t] = "l5"
  /\ LET buf == BufferOf(frame[t].version_string)
     IN  IF buf.ok
         THEN /\ frame' = [frame EXCEPT ![t].h = sha512(buf.bytes)]
              /\ pc' = [pc EXCEPT ![t] = "l6"]
              /\ UNCHANGED result
         ELSE /\ result' = [result EXCEPT ![t] = [kind |-> "raise", exc |-> buf.exc]]
              /\ frame' = [frame EXCEPT ![t] = EmptyFrame]
              /\ pc' = [pc EXCEPT ![t] = "idle"]
  /\ UNCHANGED <<modules, arg>>

\* Line 6 with ver a global of the module instead of a local of the call.
Line6Global(t) ==
  /\ pc[t] = "l6"
  /\ frame' = [u \in Threads |->
                 [frame[u] EXCEPT !.ver =
                    Str(<<48, 120>> \o Slice(HexDigest(frame[t].h.digest), 0, 8))]]
  /\ pc' = [pc EXCEPT ![t] = "l7"]
  /\ UNCHANGED <<modules, arg, result>>

\* ver = '0x' + h.hexdigest()[0:8]
Line6(t) ==
  /\ pc[t] = "l6"
  /\ frame' = [frame EXCEPT ![t].ver =
                 Str(<<48, 120>> \o Slice(HexDigest(frame[t].h.digest), 0, 8))]
  /\ pc' = [pc EXCEPT ![t] = "l7"]
  /\ UNCHANGED <<modules, arg, result>>

\* return ver
Line7(t) ==
  /\ pc[t] = "l7"
  /\ result' = [result EXCEPT ![t] = [kind |-> "return", value |-> frame[t].ver]]
  /\ frame' = [frame EXCEPT ![t] = EmptyFrame]
  /\ pc' = [pc EXCEPT ![t] = "idle"]
  /\ UNCHANGED <<modules, arg>>

\* A step of thread t inside protoid.
Step(t) == Line4(t) \/ Line5(t) \/ Line6(t) \/ Line7(t)

\* protoid(obj) run from line 4 to the end with no other call in between.
Protoid(obj) ==
  IF BufferOf(obj).ok
  THEN [kind |-> "return",
        value |-> Str(<<48, 120>>
                        \o Slice(HexDigest(sha512(BufferOf(obj).bytes).digest), 0, 8))]
  ELSE [kind |-> "raise", exc |-> BufferOf(obj).exc]

(***************************************************************************)
(* protoid as a library: threads call it on any input, concurrently        *)
(***************************************************************************)

\* No run has ended yet.
NoRun == [nargs |-> 0, first |-> None, stdout |-> <<>>, stderr |-> <<>>,
          status |-> Running, calls |-> 0]

\* A new process: any interpreter, hashlib not loaded yet.
InitInterpreter ==
  /\ interp \in Interpreters
  /\ modules = {}

InitThreads ==
  /\ pc = [t \in Threads |-> "idle"]
  /\ frame = [t \in Threads |-> EmptyFrame]
  /\ arg = [t \in Threads |-> None]
  /\ result = [t \in Threads |-> NoResult]

NoProcess ==
  /\ cpc = "none"
  /\ argv = <<>>
  /\ version_string = None
  /\ stdout = <<>>
  /\ stderr = <<>>
  /\ status = Running
  /\ calls = 0
  /\ prev = NoRun

Init == InitInterpreter /\ InitThreads /\ NoProcess

\* Nothing outside the call changes.
Outside == UNCHANGED interp /\ UNCHANGED cliVars

Call(t, obj) == Enter(t, obj) /\ Outside

Next ==
  \/ \E t \in Threads, obj \in Inputs : Call(t, obj)
  \/ \E t \in Threads : Line4(t) /\ Outside
  \/ \E t \in Threads : Line5(t) /\ Outside
  \/ \E t \in Threads : Line6(t) /\ Outside
  \/ \E t \in Threads : Line7(t) /\ Outside

Spec == Init /\ [][Next]_vars

(***************************************************************************)
(* The script run from the command line (lines 9-15)                       *)
(***************************************************************************)

\* The thread that runs the script.
Main == 1

\* The printable ASCII characters from code point 32 to 95 and from 97 to 126.
Ascii ==
  <<" ", "!", "\"", "#", "$", "%", "&", "'", "(", ")", "*", "+", ",", "-", ".", "/",
    "0", "1", "2", "3", "4", "5", "6", "7", "8", "9", ":", ";", "<", "=", ">", "?",
    "@", "A", "B", "C", "D", "E", "F", "G", "H", "I", "J", "K", "L", "M", "N", "O",
    "P", "Q", "R", "S", "T", "U", "V", "W", "X", "Y", "Z", "[", "\\", "]", "^", "_">>
AsciiLower ==
  <<"a", "b", "c", "d", "e", "f", "g", "h", "i", "j", "k", "l", "m", "n", "o",
    "p", "q", "r", "s", "t", "u", "v", "w", "x", "y", "z", "{", "|", "}", "~">>

\* The character with code point c.
Chr(c) == IF c < 96 THEN Ascii[c - 31] ELSE AsciiLower[c - 96]

RECURSIVE Render(_)
\* The characters cs as they are written to a stream.
Render(cs) ==
  IF cs = <<>> THEN "" ELSE Chr(Head(cs)) \o Render(Tail(cs))

\* repr() of a string of letters, digits, spaces and dots.
Repr(text) == "'" \o text \o "'"

\* The line print(label, obj) writes. In Python 3 print is a function and
\* writes its arguments separated by a space; in Python 2 print is a statement
\* and (label, obj) a tuple, written as its repr.
PrintLine(label, obj) ==
  IF interp = "python3"
  THEN label \o " " \o Render(obj.chars)
  ELSE "(" \o Repr(label) \o ", " \o Repr(Render(obj.chars)) \o ")"

\* The code points of 'protoid.py'.
ProgramName == <<112, 114, 111, 116, 111, 105, 100, 46, 112, 121>>

\* sys.argv, from index 0.
SysArgv == <<Str(ProgramName)>> \o [i \in 1..Len(argv) |-> Str(argv[i])]

\* The command lines: up to MaxArgs arguments.
CommandLines == SeqsUpTo(SeqsUpTo(ArgChars, MaxLen), MaxArgs)

InitProcess ==
  /\ cpc = "l10"
  /\ argv \in CommandLines
  /\ version_string = None
  /\ stdout = <<>>
  /\ stderr = <<>>
  /\ status = Running
  /\ calls = 0
  /\ prev = NoRun

InitCLI == InitInterpreter /\ InitThreads /\ InitProcess

Fixed == UNCHANGED <<interp, argv, prev>>

\* import sys
L10 ==
  /\ cpc = "l10"
  /\ cpc' = "l11"
  /\ Fixed
  /\ UNCHANGED <<version_string, stdout, stderr, status, calls>>
  /\ UNCHANGED libVars

\* version_string = 'Testing v0.1'
L11 ==
  /\ cpc = "l11"
  /\ version_string' = Str(DefaultVersionString)
  /\ cpc' = "l12"
  /\ Fixed
  /\ UNCHANGED <<stdout, stderr, status, calls>>
  /\ UNCHANGED libVars

\* if len(sys.argv) > 1:
L12 ==
  /\ cpc = "l12"
  /\ cpc' = IF Len(SysArgv) > 1 THEN "l13" ELSE "l14"
  /\ Fixed
  /\ UNCHANGED <<version_string, stdout, stderr, status, calls>>
  /\ UNCHANGED libVars

\* Line 13 with sys.argv[-1], the last argument.
L13Last ==
  /\ cpc = "l13"
  /\ version_string' = SysArgv[Len(SysArgv)]
  /\ cpc' = "l14"
  /\ Fixed
  /\ UNCHANGED <<stdout, stderr, status, calls>>
  /\ UNCHANGED libVars

\* version_string = sys.argv[1]
L13 ==
  /\ cpc = "l13"
  /\ version_string' = SysArgv[1 + 1]
  /\ cpc' = "l14"
  /\ Fixed
  /\ UNCHANGED <<stdout, stderr, status, calls>>
  /\ UNCHANGED libVars

\* print('Version string:  ', version_string)
L14 ==
  /\ cpc = "l14"
  /\ stdout' = Append(stdout, PrintLine("Version string:  ", version_string))
  /\ cpc' = "l15"
  /\ Fixed
  /\ UNCHANGED <<version_string, stderr, status, calls>>
  /\ UNCHANGED libVars

\* print('Proto identifier:', protoid(version_string)): the argument
\* protoid(version_string) is evaluated first,
L15Call ==
  /\ cpc = "l15"
  /\ Enter(Main, version_string)
  /\ calls' = calls + 1
  /\ cpc' = "l15 protoid"
  /\ Fixed
  /\ UNCHANGED <<version_string, stdout, stderr, status>>

\* (the main thread inside protoid)
L15Protoid ==
  /\ cpc = "l15 protoid"
  /\ Step(Main)
  /\ Fixed
  /\ UNCHANGED <<cpc, version_string, stdout, stderr, status, calls>>

\* then the line is written, when protoid returned;
L15Print ==
  /\ cpc = "l15 protoid"
  /\ pc[Main] = "idle"
  /\ result[Main].kind = "return"
  /\ stdout' = Append(stdout, PrintLine("Proto identifier:", result[Main].value))
  /\ cpc' = "end"
  /\ Fixed
  /\ UNCHANGED <<version_string, stderr, status, calls>>
  /\ UNCHANGED libVars

\* Line 15 inside try/except: the exception is dropped and the script goes on.
L15Caught ==
  /\ cpc = "l15 protoid"
  /\ pc[Main] = "idle"
  /\ result[Main].kind = "raise"
  /\ cpc' = "end"
  /\ Fixed
  /\ UNCHANGED <<version_string, stdout, stderr, status, calls>>
  /\ UNCHANGED libVars

\* the script has no try: an exception of protoid ends the process with a
\* traceback on standard error and exit status 1.
L15Raise ==
  /\ cpc = "l15 protoid"
  /\ pc[Main] = "idle"
  /\ result[Main].kind = "raise"
  /\ stderr' = stderr \o <<"Traceback (most recent call last):", result[Main].exc>>
  /\ status' = Exited(1)
  /\ cpc' = "exited"
  /\ Fixed
  /\ UNCHANGED <<version_string, stdout, calls>>
  /\ UNCHANGED libVars

\* The end of the script: exit status 0.
End ==
  /\ cpc = "end"
  /\ status' = Exited(0)
  /\ cpc' = "exited"
  /\ Fixed
  /\ UNCHANGED <<version_string, stdout, stderr, calls>>
  /\ UNCHANGED libVars

\* What is kept of a run that has ended: the number of its arguments, the
\* first of them, and what it wrote and returned.
Summary ==
  [nargs |-> Len(argv), first |-> IF argv = <<>> THEN None ELSE argv[1],
   stdout |-> stdout, stderr |-> stderr, status |-> status, calls |-> calls]

\* The script is run again, with any command line.
Rerun(args) ==
  /\ cpc = "exited"
  /\ prev' = Summary
  /\ argv' = args
  /\ cpc' = "l10"
  /\ version_string' = None
  /\ stdout' = <<>>
  /\ stderr' = <<>>
  /\ status' = Running
  /\ calls' = 0
  /\ pc' = [t \in Threads |-> "idle"]
  /\ frame' = [t \in Threads |-> EmptyFrame]
  /\ arg' = [t \in Threads |-> None]
  /\ result' = [t \in Threads |-> NoResult]
  /\ modules' = {}
  /\ UNCHANGED interp

NextCLI ==
  \/ L10
  \/ L11
  \/ L12
  \/ L13
  \/ L14
  \/ L15Call
  \/ L15Protoid
  \/ L15Print
  \/ L15Raise
  \/ End
  \/ \E args \in CommandLines : Rerun(args)

SpecCLI == InitCLI /\ [][NextCLI]_vars

(***************************************************************************)
(* The claims                                                              *)
(***************************************************************************)

\* Thread t's call has ended.
Ended(t) == pc[t] = "idle" /\ result[t].kind # "none"

\* obj has a byte representation: it is a byte string, or a text string whose
\* characters are ASCII (as bytes the same under ASCII, UTF-8 and Latin-1).
Encodable(obj) ==
  obj.type = "bytes" \/ \A i \in DOMAIN obj.chars : obj.chars[i] < 128

\* cs matches 0x[0-9a-f]{8}.
IsIdentifier(cs) ==
  /\ Len(cs) = 10
  /\ cs[1] = 48
  /\ cs[2] = 120
  /\ \A i \in 3..10 : cs[i] \in (48..57) \cup (97..102)

\* C1 as stated: every call of protoid on a version string s returns "0x" and
\* the first 8 of the 128 hexadecimal characters of the SHA-512 digest of the
\* bytes of s, and '0xcf83e135' for the empty string.
C1_Original ==
  \A t \in Threads :
    Ended(t) /\ Encodable(arg[t]) =>
      /\ result[t].kind = "return"
      /\ Len(HexDigest(sha512(arg[t].chars).digest)) = 128
      /\ result[t].value.chars
           = <<48, 120>> \o SubSeq(HexDigest(sha512(arg[t].chars).digest), 1, 8)
      /\ arg[t].chars = <<>> => Render(result[t].value.chars) = "0xcf83e135"

\* C2 as stated: for every string s, protoid(s) returns a value of length 10
\* that matches 0x[0-9a-f]{8}.
C2_Original ==
  \A t \in Threads :
    Ended(t) /\ Encodable(arg[t]) =>
      result[t].kind = "return" /\ IsIdentifier(result[t].value.chars)

\* C3: two calls of protoid on the same string, in any order and with any
\* other calls in between, end the same way.
C3_Deterministic ==
  \A t1, t2 \in Threads :
    Ended(t1) /\ Ended(t2) /\ arg[t1] = arg[t2] => result[t1] = result[t2]

C3_Witness ==
  \E t1, t2 \in Threads :
    /\ t1 # t2
    /\ Ended(t1) /\ Ended(t2)
    /\ arg[t1] = arg[t2]
    /\ result[t1].kind = "return"

\* C4 as stated: protoid returns an identifier for every input that can be
\* encoded, and raises an encoding error, returning nothing, for every input
\* that cannot.
C4_Original ==
  \A t \in Threads :
    Ended(t) =>
      IF Encodable(arg[t])
      THEN result[t].kind = "return"
      ELSE result[t] = [kind |-> "raise", exc |-> "UnicodeEncodeError"]

\* The line the script is at is after line 13.
AfterLine13 == cpc \in {"l14", "l15", "l15 protoid", "end", "exited"}

\* C5: with one or more arguments the version string printed and passed to
\* protoid is the first one, and a run with more arguments writes and returns
\* what the run with the first argument alone did.
C5_FirstArgument ==
  Len(argv) >= 1 =>
    /\ AfterLine13 => version_string = Str(argv[1])
    /\ stdout # <<>> => stdout[1] = PrintLine("Version string:  ", Str(argv[1]))
    /\ calls > 0 => arg[Main] = Str(argv[1])
    /\ cpc = "exited" /\ prev.nargs = 1 /\ prev.first = argv[1] =>
         /\ stdout = prev.stdout
         /\ stderr = prev.stderr
         /\ status = prev.status

C5_Witness ==
  /\ cpc = "exited"
  /\ Len(argv) > 1
  /\ argv[2] # argv[1]
  /\ prev.nargs = 1
  /\ prev.first = argv[1]
  /\ Len(stdout) = 2

\* C6: with no argument the version string printed and passed to protoid is
\* 'Testing v0.1'.
C6_Default ==
  Len(argv) = 0 =>
    /\ AfterLine13 => Render(version_string.chars) = "Testing v0.1"
    /\ stdout # <<>> =>
         stdout[1] = IF interp = "python3"
                     THEN "Version string:   Testing v0.1"
                     ELSE "('Version string:  ', 'Testing v0.1')"
    /\ calls > 0 => Render(arg[Main].chars) = "Testing v0.1"

C6_Witness ==
  /\ Len(argv) = 0
  /\ cpc = "exited"
  /\ stdout # <<>>
  /\ calls = 1

\* C7 as stated: a successful run writes exactly the two lines
\* 'Version string:   <version_string>' and 'Proto identifier: <id>', in this
\* order, and calls protoid once.
C7_Original ==
  cpc = "exited" /\ status = Exited(0) =>
    /\ stdout = <<"Version string:   " \o Render(version_string.chars),
                  "Proto identifier: " \o Render(result[Main].value.chars)>>
    /\ calls = 1

\* C8: the exit status is 0 when protoid returned; when protoid raised, the
\* exception is not caught and the exit status is not 0.
C8_ExitStatus ==
  cpc = "exited" =>
    /\ result[Main].kind \in {"return", "raise"}
    /\ result[Main].kind = "return" => status = Exited(0)
    /\ result[Main].kind = "raise" =>
         /\ status.state = "exited"
         /\ status.code # 0
         /\ stderr # <<>>

C8_Witness ==
  /\ cpc = "exited"
  /\ result[Main].kind = "raise"
  /\ status = Exited(1)

\* C9 as stated: a run writes both lines, or, when protoid raised, none; and
\* protoid is not called again.
C9_Original ==
  cpc = "exited" =>
    /\ Len(stdout) = 2 \/ (result[Main].kind = "raise" /\ stdout = <<>>)
    /\ calls <= 1

====
